---- MODULE Spec2Model ----
(***************************************************************************)
(* Forest orchestration layer of RandomSurvivalForest.py: fit (seed        *)
(* generation, bootstrap draws, parallel tree construction, filtering,     *)
(* OOB scoring) and predict, for two forest objects of one process.        *)
(*                                                                         *)
(* Python lists are sequences; position k of a sequence is Python index    *)
(* k-1.  Training rows are named by their 0-based row index; row r has     *)
(* observed time r+1.  An optional value (None or v) is <<>> or <<v>>.     *)
(***************************************************************************)
EXTENDS Integers, Sequences, FiniteSets, TLC

\* ------------------------------------------------------------------ bounds
MaxEstimators == 2      \* n_estimators ranges over 1..MaxEstimators
MaxRows == 3            \* largest training table
MaxSeed == 0            \* random_state ranges over None, 0..MaxSeed; so does
                        \* the ambient state of np.random at a call
MaxFits == 2            \* fit calls per run
MaxProbe == 1           \* rows of a predict input
NumFeatures == 3        \* x.shape[1]

\* --------------------------------------------------------------- constants
CpuCount == 2                   \* multiprocessing.cpu_count()
RandintHigh == 2147483647       \* 2**31-1, exclusive upper bound of randint
DefaultMinLeaf == 3
DefaultUniqueDeaths == 3
NaN == -1                       \* pandas NaN; every real CHF value is >= 0

None == <<>>
Some(v) == <<v>>
Inst == {"A", "B"}
Entropy == 0..MaxSeed
\* concordance_index returns a real in [0,1]; the forest stores it and
\* never reads it, so one value stands for the range
ScoreValues == {1}

Range(s) == {s[k] : k \in DOMAIN s}
Max(S) == CHOOSE m \in S : \A o \in S : o <= m

\* ------------------------------------------------------ numpy stand-ins
\* int(round(np.sqrt(n), 0)): the integer nearest to sqrt(n)
RoundSqrt(n) == CHOOSE k \in 0..n : (2*k - 1) * (2*k - 1) < 4 * n /\ 4 * n < (2*k + 1) * (2*k + 1)

\* RandomState(seed).randint(0, 2**31-1, k): k values below RandintHigh,
\* a fixed function of the seed
Randint(seed, k) == [i \in 1..k |-> (seed * 7919 + i * 104729) % RandintHigh]

\* one step of the generator behind np.random.seed / np.random.choice
Lcg(s) == ((s % 65537) * 75 + 74) % 65537

RECURSIVE Draws(_, _, _)
Draws(s, k, n) == IF k = 0 THEN <<>> ELSE <<Lcg(s) % n>> \o Draws(Lcg(s), k - 1, n)

\* np.random.seed(s); np.random.choice(range(n), n)
Choice(s, n) == Draws(s, n, n)

\* RandomState(seed=s).permutation(nf)
Permutation(s, nf) == [j \in 1..nf |-> (s + j - 1) % nf]

\* permutation(nf)[:n_features]
FeatureSubset(s, nf) == SubSeq(Permutation(s, nf), 1, RoundSqrt(nf))

\* ---------------------------------------------- SurvivalTree (collaborator)
Count(rows, G) == Cardinality({k \in DOMAIN rows : rows[k] \in G})

\* a split leaves at least min_leaf rows and unique_deaths distinct death
\* times (one per distinct row) on each side; identical rows stay together
CanSplit(rows, min_leaf, unique_deaths) ==
    \E G \in SUBSET Range(rows) :
        /\ Count(rows, G) >= min_leaf
        /\ Count(rows, Range(rows) \ G) >= min_leaf
        /\ Cardinality(G) >= unique_deaths
        /\ Cardinality(Range(rows) \ G) >= unique_deaths
        /\ G # {} /\ G # Range(rows)

\* SurvivalTree(x=x.iloc[rows], y=y.iloc[rows], f_idxs, n_features, timeline,
\*              unique_deaths, min_leaf, random_state)
SurvivalTree(rows, f_idxs, n_features, unique_deaths, min_leaf, random_state) ==
    [rows |-> rows, f_idxs |-> f_idxs, n_features |-> n_features,
     random_state |-> random_state,
     prediction_possible |-> CanSplit(rows, min_leaf, unique_deaths)]

\* the leaf of the tree a sample falls in, by the tree's first feature
Leaf(tree, sample) == (sample + tree.f_idxs[1]) % 2

\* tree.predict(sample): a CHF, a non-decreasing step function given by its
\* values at the observed times of the tree's training rows, scaled by leaf
TreePredict(tree, sample) ==
    [t \in {r + 1 : r \in Range(tree.rows)} |->
        Cardinality({k \in DOMAIN tree.rows : tree.rows[k] + 1 <= t})
            * (1 + Leaf(tree, sample))]

\* ------------------------------------------------------- pandas stand-ins
\* Series + Series: aligned on the union of the indexes, NaN where a label
\* is missing on either side
SeriesAdd(a, b) ==
    [t \in (DOMAIN a) \cup (DOMAIN b) |->
        IF t \in DOMAIN a /\ t \in DOMAIN b /\ a[t] # NaN /\ b[t] # NaN
        THEN a[t] + b[t] ELSE NaN]

\* Series / int, element by element, as the exact quotient <<num, den>>
SeriesDiv(a, d) == [t \in DOMAIN a |-> IF a[t] = NaN THEN <<NaN, 1>> ELSE <<a[t], d>>]

RECURSIVE SumAt(_, _, _)
SumAt(chfs, q, t) ==
    IF q = 0 THEN 0
    ELSE SumAt(chfs, q - 1, t) + (IF t \in DOMAIN chfs[q] THEN chfs[q][t] ELSE 0)

\* pd.concat(chfs).groupby(level=0).mean(): per index label, the mean of
\* the entries carrying that label
GroupMean(chfs) ==
    [t \in UNION {DOMAIN chfs[q] : q \in DOMAIN chfs} |->
        <<SumAt(chfs, Len(chfs), t),
          Cardinality({q \in DOMAIN chfs : t \in DOMAIN chfs[q]})>>]

\* ------------------------------------------------- RandomSurvivalForest
\* draw_bootstrap_samples: one draw of len(data) row indexes per estimator;
\* rs is self.random_states, e the ambient state of np.random when unseeded
draw_bootstrap_samples(random_state, n_estimators, rs, no_samples, e) ==
    [i \in 1..n_estimators |->
        IF random_state = None THEN Choice(e * 13 + i, no_samples)
        ELSE Choice(rs[i], no_samples)]

\* the feature subset of create_tree
f_idxs_of(random_state, rs_i, nf, e) ==
    IF random_state = None THEN FeatureSubset(e, nf) ELSE FeatureSubset(rs_i, nf)

\* y.iloc[idxs, :] raises IndexError when a position is out of bounds
IlocRaises(idxs, nrows) == \E k \in DOMAIN idxs : idxs[k] >= nrows

\* create_tree(x, y, i)
create_tree(p, rs, idxs, i, e) ==
    SurvivalTree(idxs[i], f_idxs_of(p.random_state, rs[i], NumFeatures, e),
                 RoundSqrt(NumFeatures), p.unique_deaths, p.min_leaf, rs[i])

\* lines 54-57: keep tree i and its bootstrap set together
RECURSIVE KeepTrees(_, _)
KeepTrees(built, k) ==
    IF k = 0 THEN <<>>
    ELSE KeepTrees(built, k - 1) \o
         (IF built[k].prediction_possible THEN <<built[k]>> ELSE <<>>)

\* variant of KeepBootstraps that appends every bootstrap set, whether or
\* not its tree is kept
KeepBootstrapsUnfiltered(built, idxs, k) == SubSeq(idxs, 1, k)

RECURSIVE KeepBootstraps(_, _, _)
KeepBootstraps(built, idxs, k) ==
    IF k = 0 THEN <<>>
    ELSE KeepBootstraps(built, idxs, k - 1) \o
         (IF built[k].prediction_possible THEN <<idxs[k]>> ELSE <<>>)

\* variant of OobAccumulate that averages the trees whose bootstrap set
\* contains the sample
RECURSIVE OobAccumulateInBag(_, _, _, _)
OobAccumulateInBag(ts, bs, sample_idx, b) ==
    IF b = 0 THEN [numerator |-> <<>>, denominator |-> 0]
    ELSE LET acc == OobAccumulateInBag(ts, bs, sample_idx, b - 1)
         IN IF sample_idx \in Range(bs[b])
            THEN LET chf == TreePredict(ts[b], sample_idx)
                 IN [numerator |-> IF acc.denominator = 0 THEN chf
                                   ELSE SeriesAdd(acc.numerator, chf),
                     denominator |-> acc.denominator + 1]
            ELSE acc

\* inner loop of compute_oob_ensembles for one sample, over trees 1..b
RECURSIVE OobAccumulate(_, _, _, _)
OobAccumulate(ts, bs, sample_idx, b) ==
    IF b = 0 THEN [numerator |-> <<>>, denominator |-> 0]
    ELSE LET acc == OobAccumulate(ts, bs, sample_idx, b - 1)
         IN IF sample_idx \notin Range(bs[b])
            THEN LET chf == TreePredict(ts[b], sample_idx)
                 IN [numerator |-> IF acc.denominator = 0 THEN chf
                                   ELSE SeriesAdd(acc.numerator, chf),
                     denominator |-> acc.denominator + 1]
            ELSE acc

\* compute_oob_ensembles(x) over samples 0..n-1; entry.sample names the
\* sample the entry was computed for (the list itself does not carry it)
RECURSIVE compute_oob_ensembles(_, _, _)
compute_oob_ensembles(ts, bs, n) ==
    IF n = 0 THEN <<>>
    ELSE LET acc == OobAccumulate(ts, bs, n - 1, Len(ts))
         IN compute_oob_ensembles(ts, bs, n - 1) \o
            (IF acc.denominator = 0 THEN <<>>
             ELSE <<[sample |-> n - 1,
                     chf |-> SeriesDiv(acc.numerator, acc.denominator)]>>)

\* the arguments compute_oob_score hands to concordance_index; y.iloc[:, 0]
\* and y.iloc[:, 1] have one entry per row of y
scorer_args(ts, bs, x) ==
    [x |-> x,
     y_time |-> [k \in 1..x.ny |-> k - 1],
     y_pred |-> compute_oob_ensembles(ts, bs, x.nx),
     y_event |-> [k \in 1..x.ny |-> k - 1]]

\* predict for one row
predict_row(ts, row) == GroupMean([q \in 1..Len(ts) |-> TreePredict(ts[q], row)])

\* variant of Collect that fills the slots in completion order
CollectAsCompleted(res, i, tree) == res @@ ((Cardinality(DOMAIN res) + 1) :> tree)

\* Parallel(...): the result of task i goes to slot i of the returned list
Collect(res, i, tree) == res @@ (i :> tree)

\* ------------------------------------------------------------------ state
\* The forests are used from one thread: a call returns or raises before
\* the next one begins.
VARIABLES
    params,          \* per forest: the constructor arguments (never reassigned)
    n_jobs,          \* per forest: self.n_jobs
    random_states,   \* per forest: self.random_states
    bootstrap_idxs,  \* per forest: self.bootstrap_idxs
    oob_score,       \* per forest: self.oob_score
    trees,           \* RandomSurvivalForest.trees, the class attribute every
                     \* self.trees resolves to (no method assigns self.trees)
    bootstraps,      \* RandomSurvivalForest.bootstraps, likewise
    call,            \* the fit call in progress (its forest, its tables, the
                     \* ambient state e of np.random it began with, which only
                     \* an unseeded forest reads), or Idle
    started,         \* tasks of the call handed to a worker
    results,         \* slots of the list Parallel returns, filled so far
    scorer_call,     \* the latest compute_oob_score call: its table and the
                     \* arguments it handed to concordance_index
    last_fit,        \* per forest: how its latest fit call ended, the list of
                     \* trees it built, len(self.trees) when it ended, and
                     \* its number among the fit calls
    last_predict,    \* how the latest predict call ended, len(self.trees)
                     \* and the number of fit calls made at that time
    nfits            \* fit calls made so far

vars == <<params, n_jobs, random_states, bootstrap_idxs, oob_score, trees,
          bootstraps, call, started, results, scorer_call, last_fit,
          last_predict, nfits>>

Idle == [pc |-> "idle"]

NJobsValues == {None, Some(-1)}
SeedValues == {None} \cup {Some(v) : v \in 0..MaxSeed}
LeafValues == {[min_leaf |-> 1, unique_deaths |-> 1],
               [min_leaf |-> DefaultMinLeaf, unique_deaths |-> DefaultUniqueDeaths]}

\* the two forests are constructed with the same arguments
Configs ==
    {[n_estimators |-> n, min_leaf |-> l.min_leaf, unique_deaths |-> l.unique_deaths,
      random_state |-> r] : n \in 1..MaxEstimators, l \in LeafValues, r \in SeedValues}

\* training tables by their row counts: empty, aligned, y one row short,
\* y one row long
Datasets == {[nx |-> 0, ny |-> 0], [nx |-> MaxRows, ny |-> MaxRows],
             [nx |-> MaxRows, ny |-> MaxRows - 1], [nx |-> MaxRows - 1, ny |-> MaxRows]}

Probes == UNION {[1..k -> 0..(MaxProbe - 1)] : k \in 0..MaxProbe}

NeverFit == [status |-> "never", x |-> [nx |-> 0, ny |-> 0], built |-> <<>>,
             nfitted |-> 0, seq |-> 0]

Init ==
    /\ \E c \in Configs : params = [f \in Inst |-> c]
    /\ \E j \in NJobsValues : n_jobs = [f \in Inst |-> j]
    /\ random_states = [f \in Inst |-> <<>>]
    /\ bootstrap_idxs = [f \in Inst |-> None]
    /\ oob_score = [f \in Inst |-> None]
    /\ trees = <<>>
    /\ bootstraps = <<>>
    /\ call = Idle
    /\ started = {}
    /\ results = <<>>
    /\ scorer_call = [x |-> [nx |-> 0, ny |-> 0], y_time |-> <<>>, y_pred |-> <<>>,
                      y_event |-> <<>>]
    /\ last_fit = [f \in Inst |-> NeverFit]
    /\ last_predict = [status |-> "never", inst |-> "A", xs |-> <<>>, preds |-> <<>>,
                       ntrees |-> 0, seq |-> 0]
    /\ nfits = 0

\* lines 43-46
ResolveJobs(j) == IF j = Some(-1) THEN Some(CpuCount) ELSE IF j = None THEN Some(1) ELSE j

\* line 48; e is the entropy RandomState(seed=None) seeds itself from
NewRandomStates(p, e) ==
    Randint(IF p.random_state = None THEN e ELSE p.random_state[1], p.n_estimators)

\* fit, lines 43-51: resolve n_jobs, generate the random states, draw the
\* bootstrap sets, submit the tasks
FitBegin(f, x, e) ==
    /\ call.pc = "idle"
    /\ nfits < MaxFits
    /\ nfits' = nfits + 1
    /\ n_jobs' = [n_jobs EXCEPT ![f] = ResolveJobs(@)]
    /\ random_states' = [random_states EXCEPT ![f] = NewRandomStates(params[f], e)]
    /\ bootstrap_idxs' = [bootstrap_idxs EXCEPT ![f] =
            draw_bootstrap_samples(params[f].random_state, params[f].n_estimators,
                                   random_states'[f], x.nx, e)]
    /\ call' = [pc |-> "building", inst |-> f, x |-> x,
                e |-> IF params[f].random_state = None THEN e ELSE 0]
    /\ started' = {}
    /\ results' = <<>>
    /\ UNCHANGED <<params, oob_score, trees, bootstraps, scorer_call, last_fit, last_predict>>

\* fit on an empty table with a numpy whose choice() rejects an empty
\* population: line 141 / 144 raises ValueError after line 48 has run
FitRaisesInDraw(f, x, e) ==
    /\ call.pc = "idle"
    /\ nfits < MaxFits
    /\ x.nx = 0
    /\ nfits' = nfits + 1
    /\ n_jobs' = [n_jobs EXCEPT ![f] = ResolveJobs(@)]
    /\ random_states' = [random_states EXCEPT ![f] = NewRandomStates(params[f], e)]
    /\ last_fit' = [last_fit EXCEPT ![f] =
            [status |-> "ValueError", x |-> x, built |-> <<>>,
             nfitted |-> Len(trees), seq |-> nfits']]
    /\ UNCHANGED <<params, bootstrap_idxs, oob_score, trees, bootstraps, call,
                   started, results, scorer_call, last_predict>>

Running == started \ DOMAIN results

\* a worker takes the next task in submission order
TaskStart(i) ==
    /\ call.pc = "building"
    /\ i \in 1..params[call.inst].n_estimators
    /\ i \notin started
    /\ \A k \in 1..(i - 1) : k \in started
    /\ Cardinality(Running) < n_jobs[call.inst][1]
    /\ started' = started \cup {i}
    /\ UNCHANGED <<params, n_jobs, random_states, bootstrap_idxs, oob_score, trees,
                   bootstraps, call, results, scorer_call, last_fit, last_predict, nfits>>

\* create_tree(x, y, i) returns; running tasks finish in any order
TaskFinish(i) ==
    /\ call.pc = "building"
    /\ i \in Running
    /\ ~IlocRaises(bootstrap_idxs[call.inst][i], call.x.ny)
    /\ results' = Collect(results, i,
            create_tree(params[call.inst], random_states[call.inst],
                        bootstrap_idxs[call.inst], i, call.e + i))
    /\ UNCHANGED <<params, n_jobs, random_states, bootstrap_idxs, oob_score, trees,
                   bootstraps, call, started, scorer_call, last_fit, last_predict, nfits>>

\* create_tree(x, y, i) raises at y.iloc (line 77); Parallel re-raises it
\* in fit
TaskRaises(i) ==
    /\ call.pc = "building"
    /\ i \in Running
    /\ IlocRaises(bootstrap_idxs[call.inst][i], call.x.ny)
    /\ call' = Idle
    /\ started' = {}
    /\ results' = <<>>
    /\ last_fit' = [last_fit EXCEPT ![call.inst] =
            [status |-> "IndexError", x |-> call.x, built |-> <<>>,
             nfitted |-> Len(trees), seq |-> nfits]]
    /\ UNCHANGED <<params, n_jobs, random_states, bootstrap_idxs, oob_score, trees,
                   bootstraps, scorer_call, last_predict, nfits>>

\* fit, lines 54-61: filter the built trees into the retained lists, score
\* the OOB ensembles (c is what concordance_index returns), return
FitEnd(c) ==
    /\ call.pc = "building"
    /\ DOMAIN results = 1..params[call.inst].n_estimators
    /\ trees' = trees \o KeepTrees(results, Len(results))
    /\ bootstraps' = bootstraps \o
            KeepBootstraps(results, bootstrap_idxs[call.inst], Len(results))
    /\ scorer_call' = scorer_args(trees', bootstraps', call.x)
    /\ oob_score' = [oob_score EXCEPT ![call.inst] = Some(c)]
    /\ last_fit' = [last_fit EXCEPT ![call.inst] =
            [status |-> "returned", x |-> call.x, built |-> results,
             nfitted |-> Len(trees'), seq |-> nfits]]
    /\ call' = Idle
    /\ started' = {}
    /\ results' = <<>>
    /\ UNCHANGED <<params, n_jobs, random_states, bootstrap_idxs, last_predict, nfits>>

\* predict(xs) returns one merged CHF per row
Predict(f, xs) ==
    /\ call.pc = "idle"
    /\ Len(trees) > 0 \/ Len(xs) = 0
    /\ last_predict' = [status |-> "returned", inst |-> f, xs |-> xs,
                        preds |-> [k \in 1..Len(xs) |-> predict_row(trees, xs[k])],
                        ntrees |-> Len(trees), seq |-> nfits]
    /\ UNCHANGED <<params, n_jobs, random_states, bootstrap_idxs, oob_score, trees,
                   bootstraps, call, started, results, scorer_call, last_fit, nfits>>

\* predict(xs) with no retained tree: pd.concat([]) raises ValueError
PredictRaises(f, xs) ==
    /\ call.pc = "idle"
    /\ Len(trees) = 0 /\ Len(xs) > 0
    /\ last_predict' = [status |-> "ValueError", inst |-> f, xs |-> xs, preds |-> <<>>,
                        ntrees |-> Len(trees), seq |-> nfits]
    /\ UNCHANGED <<params, n_jobs, random_states, bootstrap_idxs, oob_score, trees,
                   bootstraps, call, started, results, scorer_call, last_fit, nfits>>

Next ==
    \/ \E f \in Inst, x \in Datasets, e \in Entropy : FitBegin(f, x, e)
    \/ \E f \in Inst, x \in Datasets, e \in Entropy : FitRaisesInDraw(f, x, e)
    \/ \E i \in 1..MaxEstimators : TaskStart(i)
    \/ \E i \in 1..MaxEstimators : TaskFinish(i)
    \/ \E i \in 1..MaxEstimators : TaskRaises(i)
    \/ \E c \in ScoreValues : FitEnd(c)
    \/ \E f \in Inst, xs \in Probes : Predict(f, xs)
    \/ \E f \in Inst, xs \in Probes : PredictRaises(f, xs)

Spec == Init /\ [][Next]_vars

\* fit calls only
FitNext ==
    \/ \E f \in Inst, x \in Datasets, e \in Entropy : FitBegin(f, x, e)
    \/ \E f \in Inst, x \in Datasets, e \in Entropy : FitRaisesInDraw(f, x, e)
    \/ \E i \in 1..MaxEstimators : TaskStart(i)
    \/ \E i \in 1..MaxEstimators : TaskFinish(i)
    \/ \E i \in 1..MaxEstimators : TaskRaises(i)
    \/ \E c \in ScoreValues : FitEnd(c)

FitSpec == Init /\ [][FitNext]_vars

\* ================================================================ claims
IsSeeded(f) == params[f].random_state # None

\* self.trees / self.bootstraps as forest f reads them
self_trees(f) == trees
self_bootstraps(f) == bootstraps

\* self.trees as it was when f's latest fit call ended (the list only grows)
FittedAtReturn(f) == SubSeq(trees, 1, last_fit[f].nfitted)

\* an empty table, or tables of different row counts
BadShape(x) == x.nx = 0 \/ x.nx # x.ny

AllDegenerate(built) == \A k \in DOMAIN built : ~built[k].prediction_possible

\* C1: the retained lists have equal length and bootstraps[i] is the index
\* set trees[i] was constructed from, in every state any sequence of fit
\* calls reaches.
C1_Alignment ==
    /\ Len(trees) = Len(bootstraps)
    /\ \A k \in DOMAIN trees : bootstraps[k] = trees[k].rows

\* two fit calls were made, and the latest one dropped a degenerate tree
\* and retained another
C1_Witness ==
    /\ nfits = 2 /\ call.pc = "idle" /\ Len(trees) >= 2
    /\ \E f \in Inst :
        /\ last_fit[f].status = "returned" /\ last_fit[f].seq = 2
        /\ \E i, j \in DOMAIN last_fit[f].built :
            /\ ~last_fit[f].built[i].prediction_possible
            /\ last_fit[f].built[j].prediction_possible

\* C2: a step of a fit call (on well-shaped tables) on one forest leaves the other forest's trees
\* and bootstraps lists unchanged.
C2_InstanceIsolation ==
    [][\A f, g \in Inst :
        (f # g /\ call.pc = "building" /\ call.inst = f /\ ~BadShape(call.x))
            => /\ self_trees(g)' = self_trees(g)
               /\ self_bootstraps(g)' = self_bootstraps(g)]_vars

\* C3: when a fit call on well-shaped tables returns, trees holds exactly the trees that call
\* built and kept, so at most n_estimators of them.
C3_FitResets ==
    \A f \in Inst : (last_fit[f].status = "returned" /\ ~BadShape(last_fit[f].x)) =>
        /\ FittedAtReturn(f) = KeepTrees(last_fit[f].built, Len(last_fit[f].built))
        /\ Len(FittedAtReturn(f)) <= params[f].n_estimators

\* the retained trees whose bootstrap set does not contain sample s
Qualifying(s) == {t \in DOMAIN trees : s \notin Range(bootstraps[t])}

RECURSIVE SumOver(_, _, _)
SumOver(Q, s, l) ==
    IF Q = {} THEN 0
    ELSE LET t == CHOOSE u \in Q : TRUE
         IN TreePredict(trees[t], s)[l] + SumOver(Q \ {t}, s, l)

\* the sum of the qualifying trees' predictions for s over their number;
\* a time point some qualifying tree has no value at sums to NaN
OobMean(s) ==
    LET Q == Qualifying(s)
    IN [l \in UNION {DOMAIN TreePredict(trees[t], s) : t \in Q} |->
            IF \A t \in Q : l \in DOMAIN TreePredict(trees[t], s)
            THEN <<SumOver(Q, s, l), Cardinality(Q)>>
            ELSE <<NaN, 1>>]

\* C4: the OOB list has, in sample order, one entry per training sample
\* that some retained tree's bootstrap set leaves out, equal to the sum of
\* exactly those trees' predictions divided by their number, and no entry
\* for a sample every retained tree's bootstrap set contains.
C4_OobExclusion ==
    LET ens == scorer_call.y_pred
        S == {s \in 0..(scorer_call.x.nx - 1) : Qualifying(s) # {}}
    IN /\ {ens[k].sample : k \in DOMAIN ens} = S
       /\ Len(ens) = Cardinality(S)
       /\ \A j, k \in DOMAIN ens : j < k => ens[j].sample < ens[k].sample
       /\ \A k \in DOMAIN ens : ens[k].chf = OobMean(ens[k].sample)

\* three retained trees of which exactly one leaves out sample 0, and
\* sample 1, which every tree contains, is skipped
C4_Witness ==
    /\ Len(trees) = 3 /\ scorer_call.x.nx >= 2
    /\ Cardinality(Qualifying(0)) = 1 /\ Qualifying(1) = {}
    /\ Len(scorer_call.y_pred) >= 1
    /\ scorer_call.y_pred[1].sample = 0
    /\ scorer_call.y_pred[1].chf =
            SeriesDiv(TreePredict(trees[CHOOSE t \in Qualifying(0) : TRUE], 0), 1)

\* C5: for well-shaped tables, the three sequences handed to
\* concordance_index have the same
\* length and their k-th entries belong to the same training sample.
C5_CohortAligned ==
    ~BadShape(scorer_call.x) =>
        /\ Len(scorer_call.y_pred) = Len(scorer_call.y_time)
        /\ Len(scorer_call.y_pred) = Len(scorer_call.y_event)
        /\ \A k \in DOMAIN scorer_call.y_pred :
            /\ scorer_call.y_pred[k].sample = scorer_call.y_time[k]
            /\ scorer_call.y_pred[k].sample = scorer_call.y_event[k]

\* C6: a fit call on well-shaped tables all of whose trees are degenerate
\* returns with oob_score at the undefined sentinel (None), and a later
\* predict call on that forest fails instead of returning.
C6_EmptyEnsemble ==
    \A f \in Inst :
        (last_fit[f].status = "returned" /\ ~BadShape(last_fit[f].x)
         /\ AllDegenerate(last_fit[f].built)) =>
            /\ oob_score[f] = None
            /\ (last_predict.status # "never" /\ last_predict.inst = f
                /\ last_predict.seq >= last_fit[f].seq)
                    => last_predict.status # "returned"

\* C7: while the tasks of a fit call run, all random states and bootstrap
\* sets of the call exist, and every filled slot i of the result list holds
\* the tree built from random_states[i] and bootstrap_idxs[i].
C7_ParallelismInvariance ==
    call.pc = "building" =>
        LET f == call.inst
        IN /\ Len(random_states[f]) = params[f].n_estimators
           /\ Len(bootstrap_idxs[f]) = params[f].n_estimators
           /\ \A i \in DOMAIN results :
                /\ results[i].random_state = random_states[f][i]
                /\ results[i].rows = bootstrap_idxs[f][i]

\* two workers, task 2 has delivered its tree and task 1 has not
C7_Witness ==
    /\ call.pc = "building"
    /\ n_jobs[call.inst] = Some(2)
    /\ DOMAIN results = {2}
    /\ random_states[call.inst][1] # random_states[call.inst][2]

\* the latest fit calls of f and g returned, and were made with the same
\* non-None seed, one worker and the same well-shaped tables
SameSeededCalls(f, g) ==
    /\ f # g /\ IsSeeded(f) /\ params[f] = params[g]
    /\ n_jobs[f] = Some(1) /\ n_jobs[g] = Some(1)
    /\ last_fit[f].status = "returned" /\ last_fit[g].status = "returned"
    /\ last_fit[f].x = last_fit[g].x /\ ~BadShape(last_fit[f].x)

\* what the two calls generated and built agrees slot by slot
SameCallProducts(f, g) ==
    /\ random_states[f] = random_states[g]
    /\ bootstrap_idxs[f] = bootstrap_idxs[g]
    /\ last_fit[f].built = last_fit[g].built
    /\ \A i \in DOMAIN last_fit[f].built :
            last_fit[f].built[i].f_idxs = last_fit[g].built[i].f_idxs

\* the part of C8 that does not involve the retained list
PerCallDeterminism == \A f, g \in Inst : SameSeededCalls(f, g) => SameCallProducts(f, g)

\* C8: two fit calls with the same non-None seed, one worker and the same
\* well-shaped tables give the same random states, bootstrap sets, feature subsets and
\* fitted tree list.
C8_SeedDeterminism ==
    \A f, g \in Inst : SameSeededCalls(f, g) =>
        /\ SameCallProducts(f, g)
        /\ FittedAtReturn(f) = FittedAtReturn(g)

\* the value at time t of a right-continuous step function that has a
\* point at or before t
CarryForward(chf, t) == chf[Max({u \in DOMAIN chf : u <= t})]

\* the retained trees 1..n whose CHF for row has a point at or before t
Reaching(n, row, t) ==
    {q \in 1..n : \E u \in DOMAIN TreePredict(trees[q], row) : u <= t}

RECURSIVE CarrySum(_, _, _)
CarrySum(Q, row, t) ==
    IF Q = {} THEN 0
    ELSE LET q == CHOOSE u \in Q : TRUE
         IN CarryForward(TreePredict(trees[q], row), t) + CarrySum(Q \ {q}, row, t)

\* C9: predict returns, per input row in order, a CHF on the union of the
\* retained trees' time points whose value at each point is the mean, over
\* every retained tree with a value at or carried forward to that point, of
\* that tree's step-function value there.
C9_CarryForwardMean ==
    last_predict.status = "returned" =>
        /\ Len(last_predict.preds) = Len(last_predict.xs)
        /\ \A k \in DOMAIN last_predict.preds :
            LET row == last_predict.xs[k]
                n == last_predict.ntrees
                p == last_predict.preds[k]
            IN /\ DOMAIN p = UNION {DOMAIN TreePredict(trees[q], row) : q \in 1..n}
               /\ \A t \in DOMAIN p :
                    p[t][1] * Cardinality(Reaching(n, row, t)) =
                        CarrySum(Reaching(n, row, t), row, t) * p[t][2]

\* C10: a fit call on an empty table, or on tables of different row
\* counts, ends at once in an error and changes nothing of the forest.
C10_ShapeFailFast ==
    [][\A f \in Inst :
        (nfits' = nfits + 1
         /\ \/ call'.pc = "building" /\ call'.inst = f /\ BadShape(call'.x)
            \/ call'.pc = "idle" /\ last_fit'[f].seq = nfits'
               /\ BadShape(last_fit'[f].x))
            => /\ call'.pc = "idle"
               /\ last_fit'[f].status \in {"ValueError", "IndexError"}
               /\ random_states' = random_states
               /\ bootstrap_idxs' = bootstrap_idxs
               /\ trees' = trees /\ bootstraps' = bootstraps
               /\ oob_score' = oob_score]_vars

====
